---- MODULE Spec2Model ----
(***************************************************************************)
(* Model of the retrieval path of src/rag.py: DocumentStore (documents,    *)
(* inverted index, keyword search), EmbeddingGenerator (hash embedding,    *)
(* cosine similarity), ContextRetriever, ResponseGenerator and the         *)
(* RAGSystem facade with its per-student conversation history.             *)
(*                                                                         *)
(* Strings are sequences of one-character strings, so that lower(),        *)
(* split() and the [:n] slices are computed as Python computes them.       *)
(* Python's None is the value None below; "" is the empty sequence for     *)
(* text and the empty string for a student_id.                             *)
(* datetime.now() is abstracted to the single instant Now.                 *)
(*                                                                         *)
(* add_document is modelled write by write (pc, frame); the other methods  *)
(* run to completion in one step.  last records the method that ran last,  *)
(* its arguments and its outcome; issued logs the answer_student_query     *)
(* calls that carried a student_id; adds counts the add calls.             *)
(*                                                                         *)
(* SpecStore is the DocumentStore used on its own, Spec the RAGSystem      *)
(* facade.                                                                 *)
(***************************************************************************)
EXTENDS Integers, Sequences, FiniteSets, TLC

VARIABLES documents, document_index, metadata_store, embeddings,
          conversation_history, pc, frame, last, issued, adds

vars == <<documents, document_index, metadata_store, embeddings,
          conversation_history, pc, frame, last, issued, adds>>

storeVars == <<documents, document_index, metadata_store, embeddings>>

(* ------------------------------ bounds --------------------------------- *)

\* number of DocumentStore.add_document calls in a run of SpecStore
MaxAdds == 3
\* number of add_educational_resource calls plus answer_student_query calls
\* that carry a student_id in a run of Spec
MaxOps == 2
\* largest top_k passed to search_documents / retrieve_context
MaxTopK == 2
\* EmbeddingGenerator.embedding_dim (a constructor argument, 384 by default)
EmbeddingDim == 3
\* the digest is an integer below HashMod (md5: below 2^128)
HashMod == 5

(* --------------------------- program constants ------------------------- *)

ExcerptLen == 200
SnippetLen == 150
ResponseTopK == 3
ComponentMod == 100

(* ------------------------------- inputs -------------------------------- *)

None == "None"
Now == "now"

DocIds == {"d1", "d2", "d3"}

\* the resource_ids passed to add_educational_resource
ResourceIds == {"d1", "d2"}

Contents ==
    { <<"A", " ", "b">>,
      <<"b", " ", " ", "b">> }

Queries ==
    { <<"B", " ", "a">>,
      <<"a", " ", "a">> }

Metadatas == {None, "beginner"}

\* the metadata passed to add_educational_resource
ResourceMetadatas == {"beginner"}

Students == {None, "", "A", "B"}

TopKs == (-1)..MaxTopK

(* ------------------------------ helpers -------------------------------- *)

EmptyMap == [x \in {} |-> {}]

Put(f, k, v) == [x \in (DOMAIN f) \cup {k} |-> IF x = k THEN v ELSE f[x]]

Min(a, b) == IF a < b THEN a ELSE b

Max(a, b) == IF a > b THEN a ELSE b

\* seq[:k] for any integer k, as Python slices
SliceTo(seq, k) ==
    LET n == Len(seq)
        stop == IF k >= 0 THEN Min(k, n) ELSE Max(0, n + k)
    IN  SubSeq(seq, 1, stop)

Range(seq) == {seq[i] : i \in DOMAIN seq}

LowerChar(c) ==
    CASE c = "A" -> "a"
      [] c = "B" -> "b"
      [] OTHER -> c

\* str.lower()
Lower(s) == [i \in DOMAIN s |-> LowerChar(s[i])]

IsSpace(c) == c = " "

\* the positions where a maximal run of non-whitespace begins
WordStarts(s) ==
    {i \in DOMAIN s : ~IsSpace(s[i]) /\ (i = 1 \/ IsSpace(s[i - 1]))}

\* the run of non-whitespace that begins at position i
WordAt(s, i) ==
    LET stop == CHOOSE j \in i..Len(s) :
                    /\ \A k \in i..j : ~IsSpace(s[k])
                    /\ (j = Len(s) \/ IsSpace(s[j + 1]))
    IN  SubSeq(s, i, stop)

\* str.split(): the maximal runs of non-whitespace, in order
Split(s) ==
    LET starts == WordStarts(s)
    IN  [n \in 1..Cardinality(starts) |->
            WordAt(s, CHOOSE i \in starts :
                          Cardinality({j \in starts : j <= i}) = n)]

\* content.lower().split() / query.lower().split()
Tokenize(text) == Split(Lower(text))

(* ---------------------------- DocumentStore ---------------------------- *)

\* metadata or {} with the "added_at" field set
StoredMetadata(metadata) ==
    [fields |-> IF metadata = None THEN "{}" ELSE metadata, added_at |-> Now]

\* self.metadata_store.get(doc_id, {})
MetadataGet(doc_id) ==
    IF doc_id \in DOMAIN metadata_store
    THEN metadata_store[doc_id]
    ELSE [fields |-> "{}", added_at |-> None]

\* set(words): the distinct tokens of the content
WordSet(content) == Range(Tokenize(content))

\* if word not in index: index[word] = []; index[word].append(doc_id)
IndexAppend(index, word, doc_id) ==
    Put(index, word,
        Append(IF word \in DOMAIN index THEN index[word] ELSE <<>>, doc_id))

\* doc_scores[doc_id] = doc_scores.get(doc_id, 0) + 1 on an insertion-ordered dict
BumpScore(scores, doc_id) ==
    IF \E i \in DOMAIN scores : scores[i].doc_id = doc_id
    THEN [i \in DOMAIN scores |->
            IF scores[i].doc_id = doc_id
            THEN [scores[i] EXCEPT !.score = @ + 1]
            ELSE scores[i]]
    ELSE Append(scores, [doc_id |-> doc_id, score |-> 1])

RECURSIVE ScoreDocs(_, _, _)
\* for doc_id in self.document_index[word]
ScoreDocs(scores, ids, i) ==
    IF i > Len(ids) THEN scores
    ELSE ScoreDocs(BumpScore(scores, ids[i]), ids, i + 1)

RECURSIVE ScoreWords(_, _, _)
\* for word in query_words: if word in self.document_index
ScoreWords(scores, words, i) ==
    IF i > Len(words) THEN scores
    ELSE ScoreWords(
            IF words[i] \in DOMAIN document_index
            THEN ScoreDocs(scores, document_index[words[i]], 1)
            ELSE scores,
            words, i + 1)

\* doc_scores.items() after the scoring loops, in first-encounter order
DocScores(query) == ScoreWords(<<>>, Tokenize(query), 1)

\* faulty variant of InsertByScore: e goes ahead of the elements of equal score
InsertByScoreUnstable(out, e) ==
    LET ahead == Cardinality({i \in DOMAIN out : out[i].score > e.score})
    IN  SubSeq(out, 1, ahead) \o <<e>> \o SubSeq(out, ahead + 1, Len(out))

\* e goes behind every element whose score is at least its own
InsertByScore(out, e) ==
    LET ahead == Cardinality({i \in DOMAIN out : out[i].score >= e.score})
    IN  SubSeq(out, 1, ahead) \o <<e>> \o SubSeq(out, ahead + 1, Len(out))

RECURSIVE SortFrom(_, _, _)
SortFrom(out, items, i) ==
    IF i > Len(items) THEN out
    ELSE SortFrom(InsertByScore(out, items[i]), items, i + 1)

\* sorted(items, key=score, reverse=True): descending and stable
SortedByScore(items) == SortFrom(<<>>, items, 1)

\* sorted(doc_scores.items(), key=lambda x: x[1], reverse=True)[:top_k]
RankedDocs(query, top_k) == SliceTo(SortedByScore(DocScores(query)), top_k)

\* the results list built at lines 57-64
SearchResults(ranked) ==
    [i \in DOMAIN ranked |->
        [doc_id   |-> ranked[i].doc_id,
         content  |-> SliceTo(documents[ranked[i].doc_id], ExcerptLen),
         score    |-> ranked[i].score,
         metadata |-> MetadataGet(ranked[i].doc_id)]]

\* what a call ends with: the value returned, or an exception raised
Returns(value) == [raised |-> FALSE, result |-> value]

Raises == [raised |-> TRUE, result |-> <<>>]

\* self.documents[doc_id] at line 61 raises KeyError for an unknown doc_id
search_documents(query, top_k) ==
    LET ranked == RankedDocs(query, top_k)
    IN  IF \E i \in DOMAIN ranked : ranked[i].doc_id \notin DOMAIN documents
        THEN Raises
        ELSE Returns(SearchResults(ranked))

retrieve_document(doc_id) ==
    IF doc_id \in DOMAIN documents
    THEN [found    |-> TRUE,
          doc_id   |-> doc_id,
          content  |-> documents[doc_id],
          metadata |-> MetadataGet(doc_id)]
    ELSE [found |-> FALSE, doc_id |-> None, content |-> <<>>,
          metadata |-> MetadataGet(doc_id)]

(* -------------------------- EmbeddingGenerator ------------------------- *)

CharCode(c) ==
    CASE c = "a" -> 1
      [] c = "b" -> 2
      [] c = "c" -> 3
      [] c = "A" -> 4
      [] c = "B" -> 5
      [] OTHER -> 6

RECURSIVE DigestFrom(_, _, _)
DigestFrom(text, i, h) ==
    IF i > Len(text) THEN h
    ELSE DigestFrom(text, i + 1, (h * 3 + CharCode(text[i])) % HashMod)

\* int(hashlib.md5(text.encode()).hexdigest(), 16): a fixed function of the
\* text's characters with values below HashMod
HashInt(text) == DigestFrom(text, 1, 0)

RECURSIVE Pow2(_)
Pow2(n) == IF n = 0 THEN 1 ELSE 2 * Pow2(n - 1)

\* component i is ((hash_int >> i) % 100) / 100.0, kept in hundredths
generate_embedding(text) ==
    LET hash_int == HashInt(text)
    IN  [i \in 1..EmbeddingDim |-> (hash_int \div Pow2(i - 1)) % ComponentMod]

RECURSIVE Dot(_, _, _)
\* sum(a * b for a, b in zip(emb1, emb2))
Dot(emb1, emb2, i) ==
    IF i > Min(Len(emb1), Len(emb2)) THEN 0
    ELSE emb1[i] * emb2[i] + Dot(emb1, emb2, i + 1)

\* the cosine num / sqrt(den2); 0.0 when either magnitude is zero
similarity_score(emb1, emb2) ==
    LET dot == Dot(emb1, emb2, 1)
        sq1 == Dot(emb1, emb1, 1)
        sq2 == Dot(emb2, emb2, 1)
    IN  IF sq1 = 0 \/ sq2 = 0
        THEN [num |-> 0, den2 |-> 1]
        ELSE [num |-> dot, den2 |-> sq1 * sq2]

\* x >= y for two similarity values (both are non-negative)
SimGeq(x, y) == x.num * x.num * y.den2 >= y.num * y.num * x.den2

SimEq(x, y) == SimGeq(x, y) /\ SimGeq(y, x)

(* --------------------------- ContextRetriever -------------------------- *)

\* the context_results list before it is sorted
ContextResults(query, search_results) ==
    LET query_embedding == generate_embedding(query)
    IN  [i \in DOMAIN search_results |->
            [doc_id     |-> search_results[i].doc_id,
             content    |-> search_results[i].content,
             similarity |-> similarity_score(query_embedding,
                                generate_embedding(search_results[i].content)),
             metadata   |-> search_results[i].metadata]]

\* faulty variant of InsertBySimilarity: ascending order, reverse=True left out
InsertBySimilarityAscending(out, e) ==
    LET ahead == Cardinality({i \in DOMAIN out :
                                SimGeq(e.similarity, out[i].similarity)})
    IN  SubSeq(out, 1, ahead) \o <<e>> \o SubSeq(out, ahead + 1, Len(out))

\* e goes behind every element whose similarity is at least its own
InsertBySimilarity(out, e) ==
    LET ahead == Cardinality({i \in DOMAIN out :
                                SimGeq(out[i].similarity, e.similarity)})
    IN  SubSeq(out, 1, ahead) \o <<e>> \o SubSeq(out, ahead + 1, Len(out))

RECURSIVE SimSortFrom(_, _, _)
SimSortFrom(out, items, i) ==
    IF i > Len(items) THEN out
    ELSE SimSortFrom(InsertBySimilarity(out, items[i]), items, i + 1)

\* sorted(context_results, key=lambda x: x["similarity"], reverse=True)
SortedBySimilarity(items) == SimSortFrom(<<>>, items, 1)

retrieve_context(query, top_k) ==
    LET found == search_documents(query, top_k)
    IN  IF found.raised THEN Raises
        ELSE Returns(SortedBySimilarity(ContextResults(query, found.result)))

(* -------------------------- ResponseGenerator -------------------------- *)

\* the text as its template and the values substituted into it
build_response(query, context) ==
    IF context = <<>>
    THEN [template |-> "I couldn't find relevant information about: {query}",
          query    |-> query,
          items    |-> <<>>]
    ELSE [template |-> "Based on available educational materials: {i}. {content}... Would you like me to explain any part of this further?",
          query    |-> <<>>,
          items    |-> [i \in DOMAIN context |->
                           SliceTo(context[i].content, SnippetLen)]]

\* the dictionary built at lines 147-160
Response(query, student_id, context) ==
    [query        |-> query,
     response     |-> build_response(query, context),
     context_used |-> Len(context),
     sources      |-> [i \in DOMAIN context |->
                          [doc_id    |-> context[i].doc_id,
                           relevance |-> context[i].similarity]],
     student_id   |-> student_id,
     generated_at |-> Now]

generate_response(query, student_id) ==
    LET found == retrieve_context(query, ResponseTopK)
    IN  IF found.raised THEN Raises
        ELSE Returns(Response(query, student_id, found.result))

(* ------------------------------ RAGSystem ------------------------------ *)

\* if student_id: (None and "" are both falsy)
Truthy(student_id) == student_id /= None /\ student_id /= ""

\* self.conversation_history.get(student_id, [])
get_conversation_history(student_id) ==
    IF student_id \in DOMAIN conversation_history
    THEN conversation_history[student_id]
    ELSE <<>>

\* faulty variant of RecordExchange: the students share one history list
RecordExchangeShared(history, query, student_id, response) ==
    IF Truthy(student_id)
    THEN LET known == Put(history, student_id,
                          IF student_id \in DOMAIN history
                          THEN history[student_id] ELSE <<>>)
         IN  [s \in DOMAIN known |->
                 Append(known[s], [query |-> query, response |-> response,
                                   timestamp |-> Now])]
    ELSE history

\* conversation_history after answer_student_query(query, student_id)
RecordExchange(history, query, student_id, response) ==
    IF Truthy(student_id)
    THEN Put(history, student_id,
             Append(IF student_id \in DOMAIN history
                    THEN history[student_id] ELSE <<>>,
                    [query |-> query, response |-> response, timestamp |-> Now]))
    ELSE history

(* ------------------------------- state --------------------------------- *)

NoFrame == [doc_id |-> None, content |-> <<>>, metadata |-> None,
            words |-> {}, facade |-> FALSE]

\* the operation that ran last, its arguments and what it returned
Call(op, query, top_k, student_id, doc_id, outcome) ==
    [op |-> op, query |-> query, top_k |-> top_k, student_id |-> student_id,
     doc_id |-> doc_id, raised |-> outcome.raised, result |-> outcome.result]

Init ==
    /\ documents = EmptyMap
    /\ document_index = EmptyMap
    /\ metadata_store = EmptyMap
    /\ embeddings = EmptyMap
    /\ conversation_history = EmptyMap
    /\ pc = "idle"
    /\ frame = NoFrame
    /\ last = Call("init", <<>>, 0, None, None, Returns(<<>>))
    /\ issued = <<>>
    /\ adds = 0

(* ------------------------------ actions -------------------------------- *)

\* faulty variant of EnterAdd: the write of the document table is left out
EnterAddWithoutDocument(doc_id, content, metadata, facade) ==
    /\ pc = "idle"
    /\ pc' = "add_metadata"
    /\ frame' = [doc_id |-> doc_id, content |-> content, metadata |-> metadata,
                 words |-> {}, facade |-> facade]
    /\ last' = Call(IF facade THEN "add_educational_resource" ELSE "add_document",
                    content, 0, None, doc_id, Returns(doc_id))
    /\ adds' = adds + 1
    /\ UNCHANGED <<documents, document_index, metadata_store, embeddings,
                   conversation_history, issued>>

\* add_document line 22, entered directly or from add_educational_resource
EnterAdd(doc_id, content, metadata, facade) ==
    /\ pc = "idle"
    /\ documents' = Put(documents, doc_id, content)
    /\ pc' = "add_metadata"
    /\ frame' = [doc_id |-> doc_id, content |-> content, metadata |-> metadata,
                 words |-> {}, facade |-> facade]
    /\ last' = Call(IF facade THEN "add_educational_resource" ELSE "add_document",
                    content, 0, None, doc_id, Returns(doc_id))
    /\ adds' = adds + 1
    /\ UNCHANGED <<document_index, metadata_store, embeddings,
                   conversation_history, issued>>

AddDocument ==
    /\ adds < MaxAdds
    /\ \E doc_id \in DocIds, content \in Contents, metadata \in Metadatas :
        EnterAdd(doc_id, content, metadata, FALSE)

AddEducationalResource ==
    /\ adds + Len(issued) < MaxOps
    /\ \E doc_id \in ResourceIds, content \in Contents,
          metadata \in ResourceMetadatas :
        EnterAdd(doc_id, content, metadata, TRUE)

\* add_document lines 23-27
AddMetadata ==
    /\ pc = "add_metadata"
    /\ metadata_store' = Put(metadata_store, frame.doc_id,
                             StoredMetadata(frame.metadata))
    /\ frame' = [frame EXCEPT !.words = WordSet(frame.content)]
    /\ pc' = "add_index"
    /\ UNCHANGED <<documents, document_index, embeddings,
                   conversation_history, last, issued, adds>>

\* one iteration of the loop at lines 28-31, in the set's iteration order
AddIndexWord ==
    /\ pc = "add_index"
    /\ \E word \in frame.words :
        /\ document_index' = IndexAppend(document_index, word, frame.doc_id)
        /\ frame' = [frame EXCEPT !.words = @ \ {word}]
    /\ UNCHANGED <<documents, metadata_store, embeddings,
                   conversation_history, pc, last, issued, adds>>

\* add_document returns; add_educational_resource then stores the embedding
AddReturn ==
    /\ pc = "add_index"
    /\ frame.words = {}
    /\ embeddings' = IF frame.facade
                     THEN Put(embeddings, frame.doc_id,
                              generate_embedding(frame.content))
                     ELSE embeddings
    /\ pc' = "idle"
    /\ frame' = NoFrame
    /\ UNCHANGED <<documents, document_index, metadata_store,
                   conversation_history, last, issued, adds>>

RetrieveDocument ==
    /\ pc = "idle"
    /\ \E doc_id \in DocIds :
        last' = Call("retrieve_document", <<>>, 0, None, doc_id,
                     Returns(retrieve_document(doc_id)))
    /\ UNCHANGED <<storeVars, conversation_history, pc, frame, issued, adds>>

SearchDocuments ==
    /\ pc = "idle"
    /\ \E query \in Queries, top_k \in TopKs :
        last' = Call("search_documents", query, top_k, None, None,
                     search_documents(query, top_k))
    /\ UNCHANGED <<storeVars, conversation_history, pc, frame, issued, adds>>

RetrieveContext ==
    /\ pc = "idle"
    /\ \E query \in Queries, top_k \in TopKs :
        last' = Call("retrieve_context", query, top_k, None, None,
                     retrieve_context(query, top_k))
    /\ UNCHANGED <<storeVars, conversation_history, pc, frame, issued, adds>>

GenerateResponse ==
    /\ pc = "idle"
    /\ \E query \in Queries, student_id \in Students :
        last' = Call("generate_response", query, ResponseTopK, student_id,
                     None, generate_response(query, student_id))
    /\ UNCHANGED <<storeVars, conversation_history, pc, frame, issued, adds>>

\* an exception in generate_response leaves answer_student_query at line 197
AnswerStudentQuery ==
    /\ pc = "idle"
    /\ \E query \in Queries, student_id \in Students :
        LET response == generate_response(query, student_id)
        IN  /\ student_id /= None => adds + Len(issued) < MaxOps
            /\ conversation_history' =
                   IF response.raised THEN conversation_history
                   ELSE RecordExchange(conversation_history, query,
                                       student_id, response.result)
            /\ issued' = IF student_id /= None /\ ~response.raised
                         THEN Append(issued, [student_id |-> student_id,
                                              query |-> query])
                         ELSE issued
            /\ last' = Call("answer_student_query", query, ResponseTopK,
                            student_id, None, response)
    /\ UNCHANGED <<storeVars, pc, frame, adds>>

GetConversationHistory ==
    /\ pc = "idle"
    /\ \E student_id \in Students :
        last' = Call("get_conversation_history", <<>>, 0, student_id, None,
                     Returns(get_conversation_history(student_id)))
    /\ UNCHANGED <<storeVars, conversation_history, pc, frame, issued, adds>>

\* the DocumentStore on its own
NextStore ==
    \/ AddDocument
    \/ AddMetadata
    \/ AddIndexWord
    \/ AddReturn
    \/ RetrieveDocument
    \/ SearchDocuments

SpecStore == Init /\ [][NextStore]_vars

\* the RAGSystem facade
Next ==
    \/ AddEducationalResource
    \/ AddMetadata
    \/ AddIndexWord
    \/ AddReturn
    \/ RetrieveDocument
    \/ SearchDocuments
    \/ RetrieveContext
    \/ GenerateResponse
    \/ AnswerStudentQuery
    \/ GetConversationHistory

Spec == Init /\ [][Next]_vars

(* ------------------------------- claims -------------------------------- *)

\* the doc_ids listed under a word of the inverted index
Postings(word) ==
    IF word \in DOMAIN document_index THEN Range(document_index[word]) ELSE {}

\* the position of a doc_id in a sequence of records that carry one
PositionOf(seq, doc_id) == CHOOSE p \in DOMAIN seq : seq[p].doc_id = doc_id

\* C1: in every reachable state of the DocumentStore, between the writes of
\* add_document included, every doc_id listed in the inverted index is a key
\* of the document table.
C1_IndexedDocsStored ==
    \A word \in DOMAIN document_index :
        Postings(word) \subseteq DOMAIN documents

\* C1 witness: a re-add of a stored doc_id is half way through its indexing loop
C1_Witness ==
    /\ pc = "add_index"
    /\ frame.words /= {}
    /\ adds >= 2
    /\ \E word \in DOMAIN document_index : frame.doc_id \in Postings(word)
    /\ Cardinality(DOMAIN documents) = 2

\* C2: each word's index entry lists any doc_id at most once.
C2_PostingsAreSets ==
    \A word \in DOMAIN document_index :
        \A i, j \in DOMAIN document_index[word] :
            i /= j => document_index[word][i] /= document_index[word][j]

\* C3: the score search_documents reports for a document is the number of
\* distinct query tokens indexed for it, and is never zero.
C3_ScoreCountsDistinctTokens ==
    (last.op = "search_documents" /\ ~last.raised) =>
        \A i \in DOMAIN last.result :
            /\ last.result[i].score =
                 Cardinality({word \in Range(Tokenize(last.query)) :
                                last.result[i].doc_id \in Postings(word)})
            /\ last.result[i].score > 0

\* C4: for top_k >= 0 search_documents returns, without raising, the first
\* top_k matching documents in descending score order, documents of equal
\* score in the order of their first encounter; so at most top_k results,
\* none for top_k = 0 and none on an empty store.
C4_RankedPrefix ==
    (last.op = "search_documents" /\ last.top_k >= 0) =>
        LET scored == DocScores(last.query)
            result == last.result
            At(i)  == PositionOf(scored, result[i].doc_id)
            Ahead(s1, p1, s2, p2) == s1 > s2 \/ (s1 = s2 /\ p1 < p2)
        IN  /\ ~last.raised
            /\ Len(result) = Min(last.top_k, Len(scored))
            /\ documents = EmptyMap => result = <<>>
            /\ \A i \in DOMAIN result :
                /\ \E p \in DOMAIN scored : scored[p].doc_id = result[i].doc_id
                /\ result[i].score = scored[At(i)].score
            /\ \A i, j \in DOMAIN result :
                i < j => Ahead(result[i].score, At(i), result[j].score, At(j))
            /\ \A p \in DOMAIN scored :
                (\A i \in DOMAIN result : At(i) /= p) =>
                    \A i \in DOMAIN result :
                        Ahead(result[i].score, At(i), scored[p].score, p)

\* C4 witness: three documents match, the one encountered last has the top
\* score and moves to the front, the other two tie and top_k = 2 cuts the
\* later one
C4_Witness ==
    /\ last.op = "search_documents"
    /\ last.top_k = 2
    /\ Len(DocScores(last.query)) = 3
    /\ DocScores(last.query)[1].score = DocScores(last.query)[2].score
    /\ Len(last.result) = 2
    /\ last.result[1].doc_id = DocScores(last.query)[3].doc_id
    /\ last.result[2].doc_id = DocScores(last.query)[1].doc_id

\* C5: once no add is in progress, the words whose index entry lists a
\* document are exactly the words of its current content.
C5_IndexMatchesLatestContent ==
    pc = "idle" =>
        \A doc_id \in DOMAIN documents :
            {word \in DOMAIN document_index : doc_id \in Postings(word)}
                = WordSet(documents[doc_id])

\* C6: retrieve_context returns exactly the candidates of
\* search_documents(query, top_k), in descending similarity order, candidates
\* of equal similarity in their order in the keyword search.
C6_RerankedBySimilarity ==
    (last.op = "retrieve_context" /\ ~last.raised) =>
        LET found  == search_documents(last.query, last.top_k).result
            result == last.result
            At(i)  == PositionOf(found, result[i].doc_id)
            Sim(i) == similarity_score(generate_embedding(last.query),
                                       generate_embedding(found[At(i)].content))
        IN  /\ Len(result) = Len(found)
            /\ {result[i].doc_id : i \in DOMAIN result}
                 = {found[p].doc_id : p \in DOMAIN found}
            /\ \A i \in DOMAIN result :
                /\ result[i].content = found[At(i)].content
                /\ result[i].metadata = found[At(i)].metadata
                /\ SimEq(result[i].similarity, Sim(i))
            /\ \A i, j \in DOMAIN result :
                i < j => \/ ~SimGeq(Sim(j), Sim(i))
                         \/ (SimEq(Sim(i), Sim(j)) /\ At(i) < At(j))

\* C6 witness: a retrieval whose similarity order differs from the keyword order
C6_Witness ==
    /\ last.op = "retrieve_context"
    /\ ~last.raised
    /\ Len(last.result) = 2
    /\ last.result[1].doc_id
         /= search_documents(last.query, last.top_k).result[1].doc_id

\* the queries of a sequence of records that carry one
QueriesOf(seq) == [i \in DOMAIN seq |-> seq[i].query]

\* the calls of answer_student_query made with student_id, in call order
IssuedBy(student_id) ==
    SelectSeq(issued, LAMBDA call : call.student_id = student_id)

\* C7: the history of every student_id is the sequence of the queries issued
\* with that student_id, one entry per call in call order.
C7_HistoryIsIssuedQueries ==
    \A student_id \in Students \ {None} :
        QueriesOf(get_conversation_history(student_id))
            = QueriesOf(IssuedBy(student_id))

\* C8: search_documents and retrieve_context called with a negative top_k
\* signal an error.
C8_NegativeTopKRaises ==
    (last.op \in {"search_documents", "retrieve_context"} /\ last.top_k < 0)
        => last.raised

\* the query has no token that occurs in the content of a stored document
AbsentFromCorpus(query) ==
    \A doc_id \in DOMAIN documents :
        Range(Tokenize(query)) \cap WordSet(documents[doc_id]) = {}

\* C9: answering a query none of whose tokens occurs in a stored document
\* yields context_used = 0, no sources and the fallback text with the query.
C9_AbsentQueryFallsBack ==
    (/\ last.op \in {"generate_response", "answer_student_query"}
     /\ ~last.raised
     /\ AbsentFromCorpus(last.query)) =>
        /\ last.result.context_used = 0
        /\ last.result.sources = <<>>
        /\ last.result.response
             = [template |-> "I couldn't find relevant information about: {query}",
                query |-> last.query, items |-> <<>>]

ReadOps == {"search_documents", "retrieve_document", "retrieve_context",
            "generate_response", "get_conversation_history"}

\* C10: a read leaves the document table, the index, the metadata, the
\* embeddings and the histories as they are; answer_student_query changes
\* nothing but the history of its student_id, by appending; and a read made
\* twice in a row returns the same result.
C10_ReadsChangeNothing ==
    [][/\ last'.op \in ReadOps =>
            UNCHANGED <<storeVars, conversation_history>>
       /\ last'.op = "answer_student_query" =>
            /\ UNCHANGED storeVars
            /\ \A student_id \in Students :
                \/ /\ (student_id \in DOMAIN conversation_history')
                        <=> (student_id \in DOMAIN conversation_history)
                   /\ get_conversation_history(student_id)'
                        = get_conversation_history(student_id)
                \/ /\ student_id = last'.student_id
                   /\ Len(get_conversation_history(student_id)')
                        = Len(get_conversation_history(student_id)) + 1
                   /\ SubSeq(get_conversation_history(student_id)', 1,
                             Len(get_conversation_history(student_id)))
                        = get_conversation_history(student_id)
       /\ (/\ last.op \in ReadOps \cup {"answer_student_query"}
           /\ last'.op = last.op
           /\ last'.query = last.query
           /\ last'.top_k = last.top_k
           /\ last'.student_id = last.student_id
           /\ last'.doc_id = last.doc_id) =>
              last'.result = last.result
      ]_vars

\* C10 witness: a query answered from a stored document for a student who
\* had no history
C10_Witness ==
    /\ last.op = "answer_student_query"
    /\ last.student_id = "A"
    /\ ~last.raised
    /\ last.result.context_used > 0
    /\ Len(get_conversation_history("A")) = 1

====
